---- MODULE Spec2Model ----
(***************************************************************************)
(* Model of refactor/generate_events_inventory.py (enum inventory) and     *)
(* refactor/generate_event_usage.py (variant usage report).                *)
(*                                                                         *)
(* Text is modelled at token level: a line is a sequence of tokens, a      *)
(* token being a maximal run of whitespace (" "), an identifier, a marker  *)
(* ("///", "//", "#[") or one punctuation character.  Indices idx,         *)
(* start_index, end_index, scan_idx are Python's 0-based indices, so the   *)
(* line at index i is lines[i + 1].                                        *)
(***************************************************************************)
EXTENDS Integers, Sequences, FiniteSets, TLC

VARIABLES
    lines,          \* parse_file: text.splitlines() of the file being parsed
    decl,           \* the declarations the file text was written from (input)
    pc,             \* position in the program
    scan_idx,       \* parse_file: idx of `for idx, line in enumerate(lines)`
    cur,            \* parse_file: name/start_line/doc/definition of the enum in hand
    start_index,    \* collect_variants: start_index
    end_index,      \* collect_variants: end_index
    idx,            \* collect_variants: idx
    brace_depth,    \* collect_variants: brace_depth
    inside_enum,    \* collect_variants: inside_enum
    pending_doc,    \* collect_variants: pending_doc
    variants,       \* collect_variants: variants
    consumed_log,   \* history: `consumed` of each collect_variant_definition call
    items,          \* main (inventory): items
    inventory,      \* EVENTS_INVENTORY.json "items" as written, or NoFile
    tree,           \* the matching lines the repository tree holds (input)
    run,            \* which run of the pipeline is under way
    item_i,         \* usage main: position of `for item in inventory`
    variant_j,      \* usage main: position of `for variant in item["variants"]`
    usage_report,   \* usage main: usage_report
    output,         \* event_variant_usage.json as on disk, or NoFile
    wrote,          \* whether this run has written event_variant_usage.json
    first_run,      \* history: the two artifacts as the first run left them
    last_rc,        \* history: proc.returncode of the latest search
    last_results    \* history: what the latest ripgrep call returned

extract_vars == <<lines, decl, pc, scan_idx, cur, start_index, end_index, idx,
                  brace_depth, inside_enum, pending_doc, variants, consumed_log,
                  items, inventory>>

usage_vars == <<tree, run, item_i, variant_j, usage_report, output, wrote,
                first_run, last_rc, last_results>>

vars == <<extract_vars, usage_vars>>

NoFile == "NoFile"
NoMatch == "NoMatch"

-----------------------------------------------------------------------------
(* str methods on token sequences *)

Count(line, tok) == Cardinality({i \in 1..Len(line) : line[i] = tok})

Whitespace == {" ", "\n"}

RECURSIVE lstrip(_)
lstrip(s) == IF s # <<>> /\ Head(s) \in Whitespace THEN lstrip(Tail(s)) ELSE s

RECURSIVE rstrip(_)
rstrip(s) ==
    IF s # <<>> /\ s[Len(s)] \in Whitespace THEN rstrip(SubSeq(s, 1, Len(s) - 1)) ELSE s

strip(s) == rstrip(lstrip(s))

endswith(s, tok) == s # <<>> /\ s[Len(s)] = tok

\* stripped.startswith("///")
StartsWithDoc(s) == s # <<>> /\ s[1] = "///"

\* stripped.startswith("#[")
StartsWithAttr(s) == s # <<>> /\ s[1] = "#["

\* stripped.startswith("//"): true of "///" lines as well
StartsWithComment(s) == s # <<>> /\ s[1] \in {"//", "///"}

\* "\n".join(buffer)
RECURSIVE join(_)
join(buffer) ==
    IF buffer = <<>> THEN <<>>
    ELSE IF Len(buffer) = 1 THEN buffer[1]
    ELSE buffer[1] \o <<"\n">> \o join(Tail(buffer))

\* line.count("{") - line.count("}")
BraceDelta(line) == Count(line, "{") - Count(line, "}")

\* line.count("(") - line.count(")")
ParenDelta(line) == Count(line, "(") - Count(line, ")")

UpperIdent == {"A", "B", "C", "D", "P", "X", "Y", "S",
               "OrderEvent", "OrderStatus", "ShipEvent", "TestEvent"}

LowerIdent == {"pub", "enum", "x", "f", "c", "a", "d0", "d1", "d2", "orders"}

Ident == UpperIdent \cup LowerIdent

\* RE_ENUM.search(line): index of the first match of pub\s+enum\s+<name>, or 0
RE_ENUM_search(line) ==
    LET hits == {i \in 1..Len(line) :
                    /\ i + 4 <= Len(line)
                    /\ line[i] = "pub"
                    /\ line[i + 1] = " "
                    /\ line[i + 2] = "enum"
                    /\ line[i + 3] = " "
                    /\ line[i + 4] \in Ident}
    IN IF hits = {} THEN 0 ELSE CHOOSE i \in hits : \A j \in hits : i <= j

\* match.group("name")
RE_ENUM_name(line) == line[RE_ENUM_search(line) + 4]

\* re.match(r"([A-Z][A-Za-z0-9_]*)", stripped): group(1), or NoMatch
VariantNameMatch(stripped) ==
    IF stripped # <<>> /\ stripped[1] \in UpperIdent THEN stripped[1] ELSE NoMatch

\* item.name.endswith("Event")
EndsWithEvent(name) == name \in {"OrderEvent", "ShipEvent", "TestEvent"}

-----------------------------------------------------------------------------
(* collect_leading_doc *)

RECURSIVE collect_leading_doc_loop(_, _, _)
collect_leading_doc_loop(ls, i, docs) ==
    IF i < 0 THEN docs
    ELSE LET stripped == strip(ls[i + 1])
         IN IF StartsWithDoc(stripped)
            THEN collect_leading_doc_loop(ls, i - 1, <<strip(Tail(stripped))>> \o docs)
            ELSE IF stripped = <<>>
            THEN collect_leading_doc_loop(ls, i - 1, docs)
            ELSE docs

collect_leading_doc(ls, start) == collect_leading_doc_loop(ls, start - 1, <<>>)

-----------------------------------------------------------------------------
(* collect_block *)

\* mutation of BlockClosed: the depth is tested before counting has started
BlockClosedAnyTime(started, depth) == depth <= 0

\* `if started and brace_depth <= 0`
BlockClosed(started, depth) == started /\ depth <= 0

RECURSIVE collect_block_loop(_, _, _, _, _, _)
collect_block_loop(ls, start, i, buffer, depth, started) ==
    IF i >= Len(ls)
    THEN [definition |-> strip(join(buffer)), end_index |-> start]
    ELSE LET line == ls[i + 1]
             buf == Append(buffer, line)
             d == IF started \/ Count(line, "{") > 0
                  THEN depth + BraceDelta(line) ELSE depth
             st == started \/ Count(line, "{") > 0
         IN IF BlockClosed(st, d)
            THEN [definition |-> strip(join(buf)), end_index |-> i]
            ELSE collect_block_loop(ls, start, i + 1, buf, d, st)

collect_block(ls, start) == collect_block_loop(ls, start, start, <<>>, 0, FALSE)

-----------------------------------------------------------------------------
(* collect_variant_definition *)

\* `if local_brace <= 0 and local_paren <= 0 and stripped.endswith(",")`
DefinitionEnds(local_brace, local_paren, stripped) ==
    local_brace <= 0 /\ local_paren <= 0 /\ endswith(stripped, ",")

RECURSIVE collect_variant_definition_loop(_, _, _, _, _, _)
collect_variant_definition_loop(ls, i, buffer, local_brace, local_paren, consumed) ==
    IF ~(i < Len(ls))
    THEN [definition |-> strip(join(buffer)), consumed |-> consumed]
    ELSE LET line == ls[i + 1]
             buf == Append(buffer, line)
             b == local_brace + BraceDelta(line)
             p == local_paren + ParenDelta(line)
             c == consumed + 1
         IN IF DefinitionEnds(b, p, strip(line))
            THEN [definition |-> strip(join(buf)), consumed |-> c]
            ELSE collect_variant_definition_loop(ls, i + 1, buf, b, p, c)

\* mutation of collect_variant_definition: `consumed += 1` comes after the
\* test that breaks the loop, so the line the loop breaks on is not counted
RECURSIVE collect_variant_definition_late_loop(_, _, _, _, _, _)
collect_variant_definition_late_loop(ls, i, buffer, local_brace, local_paren, consumed) ==
    IF ~(i < Len(ls))
    THEN [definition |-> strip(join(buffer)), consumed |-> consumed]
    ELSE LET line == ls[i + 1]
             buf == Append(buffer, line)
             b == local_brace + BraceDelta(line)
             p == local_paren + ParenDelta(line)
         IN IF DefinitionEnds(b, p, strip(line))
            THEN [definition |-> strip(join(buf)), consumed |-> consumed]
            ELSE collect_variant_definition_late_loop(ls, i + 1, buf, b, p, consumed + 1)

collect_variant_definition_late(ls, start) ==
    collect_variant_definition_late_loop(ls, start, <<>>, 0, 0, 0)

collect_variant_definition(ls, start) ==
    collect_variant_definition_loop(ls, start, <<>>, 0, 0, 0)

-----------------------------------------------------------------------------
(* collect_variants: one iteration of `while idx <= end_index` *)

RECURSIVE SumBraceDelta(_, _, _)
\* sum(line.count("{") - line.count("}") for line in lines[from:to])
SumBraceDelta(ls, from, to) ==
    IF from >= to \/ from >= Len(ls) THEN 0
    ELSE BraceDelta(ls[from + 1]) + SumBraceDelta(ls, from + 1, to)

\* `stripped[3:].strip()`: the doc line without its marker
DocText(stripped) == strip(Tail(stripped))

\* mutation of AfterAttach: the buffer is kept after it is attached
AfterAttachKeep(pending) == pending

\* `pending_doc = []` once the buffer is attached (line 156)
AfterAttach(pending) == <<>>

\* which branch of the loop body the line at st.idx takes
Branch(ls, st) ==
    LET line == ls[st.idx + 1]
        stripped == strip(line)
    IN IF ~st.inside_enum THEN "outside"
       ELSE IF StartsWithDoc(stripped) THEN "doc"
       ELSE IF StartsWithAttr(stripped) THEN "attr"
       ELSE IF /\ st.brace_depth = 1
               /\ stripped # <<>>
               /\ ~StartsWithComment(stripped)
               /\ VariantNameMatch(stripped) # NoMatch
            THEN "variant"
       ELSE "other"

\* the loop state after the iteration at st.idx
VariantsStep(ls, st) ==
    LET line == ls[st.idx + 1]
        stripped == strip(line)
        br == Branch(ls, st)
        def == collect_variant_definition(ls, st.idx)
    IN CASE br = "outside" ->
              IF Count(line, "{") > 0
              THEN [st EXCEPT !.inside_enum = TRUE,
                              !.brace_depth = @ + BraceDelta(line),
                              !.idx = @ + 1]
              ELSE [st EXCEPT !.idx = @ + 1]
         [] br = "doc" ->
              [st EXCEPT !.pending_doc = Append(@, DocText(stripped)),
                         !.brace_depth = @ + BraceDelta(line),
                         !.idx = @ + 1]
         [] br = "attr" ->
              [st EXCEPT !.pending_doc = Append(@, stripped),
                         !.brace_depth = @ + BraceDelta(line),
                         !.idx = @ + 1]
         [] br = "variant" ->
              [st EXCEPT !.variants = Append(@, [name |-> VariantNameMatch(stripped),
                                                 start_line |-> st.idx + 1,
                                                 doc |-> st.pending_doc,
                                                 definition |-> def.definition]),
                         !.pending_doc = AfterAttach(st.pending_doc),
                         !.brace_depth = @ + SumBraceDelta(ls, st.idx, st.idx + def.consumed),
                         !.consumed_log = Append(@, def.consumed),
                         !.idx = @ + def.consumed]
         [] OTHER ->
              [st EXCEPT !.brace_depth = @ + BraceDelta(line),
                         !.idx = @ + 1]

\* the loop state on entry to collect_variants
VariantsStart(start) ==
    [idx |-> start, brace_depth |-> 0, inside_enum |-> FALSE,
     pending_doc |-> <<>>, variants |-> <<>>, consumed_log |-> <<>>]

RECURSIVE collect_variants_loop(_, _, _)
collect_variants_loop(ls, end, st) ==
    IF st.idx <= end THEN collect_variants_loop(ls, end, VariantsStep(ls, st)) ELSE st

collect_variants(ls, start, end) ==
    collect_variants_loop(ls, end, VariantsStart(start)).variants

-----------------------------------------------------------------------------
(* parse_file, compute_module, enum_to_dict, main *)

\* index of the first line at or after `from` that RE_ENUM matches, or -1
NextEnumLine(ls, from) ==
    LET hits == {i \in from..(Len(ls) - 1) : RE_ENUM_search(ls[i + 1]) # 0}
    IN IF hits = {} THEN -1 ELSE CHOOSE i \in hits : \A j \in hits : i <= j

\* parts[-1].removesuffix(".rs")
removesuffix_rs(part) ==
    CASE part = "order.rs" -> "order"
      [] part = "ship.rs" -> "ship"
      [] OTHER -> part

\* "::".join(parts), as the sequence of joined parts
compute_module(rel) ==
    IF rel[Len(rel)] = "mod.rs"
    THEN SubSeq(rel, 1, Len(rel) - 1)
    ELSE [rel EXCEPT ![Len(rel)] = removesuffix_rs(@)]

\* the EnumItem parse_file yields for the declaration at line i
EnumItemAt(ls, path, rel, i) ==
    LET blk == collect_block(ls, i)
    IN [name |-> RE_ENUM_name(ls[i + 1]),
        module |-> compute_module(rel),
        path |-> path,
        start_line |-> i + 1,
        doc |-> collect_leading_doc(ls, i),
        definition |-> blk.definition,
        variants |-> collect_variants(ls, i, blk.end_index)]

RECURSIVE parse_file_from(_, _, _, _)
parse_file_from(ls, path, rel, from) ==
    LET i == NextEnumLine(ls, from)
    IN IF i = -1 THEN <<>>
       ELSE <<EnumItemAt(ls, path, rel, i)>> \o parse_file_from(ls, path, rel, i + 1)

parse_file(ls, path, rel) == parse_file_from(ls, path, rel, 0)

\* [enum_to_dict(item) for item in items if item.name.endswith("Event")]
InventoryItems(its) ==
    LET kept == SelectSeq(its, LAMBDA it : EndsWithEvent(it.name))
    IN [k \in 1..Len(kept) |-> [kind |-> "enum"] @@ kept[k]]

-----------------------------------------------------------------------------
(* Input files of the extractor *)

MaxVariants == 2

VariantNames == <<"A", "B", "C", "D">>

Shapes == {"unit", "struct", "tupleML", "structML", "commented"}

Pres == {"none", "doc2", "gap", "attr"}

Comma(c) == IF c THEN <<",">> ELSE <<>>

\* the source lines of a variant N of the given payload shape
ShapeLines(shape, N, c) ==
    CASE shape = "unit" ->
           << <<" ", N>> \o Comma(c) >>
      [] shape = "struct" ->
           << <<" ", N, " ", "{", " ", "x", ":", " ", "X", " ", "}">> \o Comma(c) >>
      [] shape = "tupleML" ->
           << <<" ", N, "(">>,
              <<" ", "X", ",">>,
              <<" ", "Y", "<", "(", "X", ",", "X", ")", ">", ",">>,
              <<" ", ")">> \o Comma(c) >>
      [] shape = "structML" ->
           << <<" ", N, " ", "{">>,
              <<" ", "///", " ", "f">>,
              <<" ", "x", ":", " ", "X", ",">>,
              <<" ", "}">> \o Comma(c) >>
      [] shape = "commented" ->
           << <<" ", N>> \o Comma(c) \o <<" ", "//", " ", "c">> >>

\* the lines written in front of a variant
PreLines(pre) ==
    CASE pre = "none" -> <<>>
      [] pre = "doc2" -> << <<" ", "///", " ", "d1">>, <<" ", "///", " ", "d2">> >>
      [] pre = "gap" -> << <<" ", "///", " ", "d0">>, <<>>, <<" ", "///", " ", "d1">> >>
      [] pre = "attr" -> << <<" ", "///", " ", "d1">>, <<" ", "#[", "a", "]">> >>

RECURSIVE BodyLines(_, _)
BodyLines(d, k) ==
    IF k > Len(d.variants) THEN <<>>
    ELSE PreLines(d.variants[k].pre)
         \o ShapeLines(d.variants[k].shape, VariantNames[k],
                       k < Len(d.variants) \/ d.lastComma)
         \o BodyLines(d, k + 1)

Header == << <<"///", " ", "orders">>,
             <<"pub", " ", "enum", " ", "OrderEvent", " ", "{">> >>

Trailer == << <<"}">>,
              <<>>,
              <<"pub", " ", "enum", " ", "OrderStatus", " ", "{">>,
              <<" ", "P", ",">>,
              <<"}">> >>

\* the file text of a declaration: OrderEvent with the declared variants, one
\* per line group, followed by a second enum
Render(d) == Header \o BodyLines(d, 1) \o Trailer

Decls ==
    UNION {[variants : [1..n -> [shape : Shapes, pre : Pres]], lastComma : BOOLEAN]
           : n \in 1..MaxVariants}

OrderPath == <<"crates", "events", "src", "order.rs">>

OrderRel == <<"order.rs">>

NoEnum == [name |-> NoMatch, start_line |-> 0, doc |-> <<>>, definition |-> <<>>]

-----------------------------------------------------------------------------
(* The usage variables while only the extractor is studied *)

UsageIdle ==
    /\ tree = {}
    /\ run = 1
    /\ item_i = 1
    /\ variant_j = 1
    /\ usage_report = <<>>
    /\ output = NoFile
    /\ wrote = FALSE
    /\ first_run = NoFile
    /\ last_rc = 0
    /\ last_results = <<>>

-----------------------------------------------------------------------------
(* The extractor as a state machine: main over one source file *)

LoopState ==
    [idx |-> idx, brace_depth |-> brace_depth, inside_enum |-> inside_enum,
     pending_doc |-> pending_doc, variants |-> variants, consumed_log |-> consumed_log]

SetLoop(st) ==
    /\ idx' = st.idx
    /\ brace_depth' = st.brace_depth
    /\ inside_enum' = st.inside_enum
    /\ pending_doc' = st.pending_doc
    /\ variants' = st.variants
    /\ consumed_log' = st.consumed_log

Init ==
    /\ decl \in Decls
    /\ lines = Render(decl)
    /\ pc = "scan"
    /\ scan_idx = 0
    /\ cur = NoEnum
    /\ start_index = 0
    /\ end_index = 0
    /\ idx = 0
    /\ brace_depth = 0
    /\ inside_enum = FALSE
    /\ pending_doc = <<>>
    /\ variants = <<>>
    /\ consumed_log = <<>>
    /\ items = <<>>
    /\ inventory = NoFile
    /\ UsageIdle

\* parse_file lines 57-66: the next line RE_ENUM matches, up to the call of
\* collect_variants
Locate ==
    /\ pc = "scan"
    /\ NextEnumLine(lines, scan_idx) # -1
    /\ LET i == NextEnumLine(lines, scan_idx)
           blk == collect_block(lines, i)
       IN /\ cur' = [name |-> RE_ENUM_name(lines[i + 1]),
                     start_line |-> i + 1,
                     doc |-> collect_leading_doc(lines, i),
                     definition |-> blk.definition]
          /\ scan_idx' = i
          /\ start_index' = i
          /\ end_index' = blk.end_index
          /\ SetLoop(VariantsStart(i))
    /\ pc' = "variants"
    /\ UNCHANGED <<lines, decl, items, inventory,
                   usage_vars>>

\* one iteration of collect_variants' loop (lines 124-161)
Step ==
    /\ pc = "variants"
    /\ idx <= end_index
    /\ SetLoop(VariantsStep(lines, LoopState))
    /\ UNCHANGED <<lines, decl, pc, scan_idx, cur, start_index, end_index, items, inventory,
                   usage_vars>>

\* lines 128-131: the line is met before the enum's body is entered
StepOutside ==
    /\ pc = "variants" /\ idx <= end_index
    /\ Branch(lines, LoopState) = "outside"
    /\ Step

\* lines 133-137: a doc-comment line
StepDoc ==
    /\ pc = "variants" /\ idx <= end_index
    /\ Branch(lines, LoopState) = "doc"
    /\ Step

\* lines 138-142: an attribute line
StepAttr ==
    /\ pc = "variants" /\ idx <= end_index
    /\ Branch(lines, LoopState) = "attr"
    /\ Step

\* lines 143-159: a variant begins
StepVariant ==
    /\ pc = "variants" /\ idx <= end_index
    /\ Branch(lines, LoopState) = "variant"
    /\ Step

\* lines 160-161: any other line
StepOther ==
    /\ pc = "variants" /\ idx <= end_index
    /\ Branch(lines, LoopState) = "other"
    /\ Step

\* collect_variants returns; parse_file yields the EnumItem (lines 67-77)
Yield ==
    /\ pc = "variants"
    /\ idx > end_index
    /\ items' = Append(items, [name |-> cur.name,
                               module |-> compute_module(OrderRel),
                               path |-> OrderPath,
                               start_line |-> cur.start_line,
                               doc |-> cur.doc,
                               definition |-> cur.definition,
                               variants |-> variants])
    /\ scan_idx' = start_index + 1
    /\ pc' = "scan"
    /\ UNCHANGED <<lines, decl, cur, start_index, end_index, idx, brace_depth,
                   inside_enum, pending_doc, variants, consumed_log, inventory,
                   usage_vars>>

\* parse_file is exhausted; main writes EVENTS_INVENTORY.json (lines 45-51)
WriteInventory ==
    /\ pc = "scan"
    /\ NextEnumLine(lines, scan_idx) = -1
    /\ inventory' = InventoryItems(items)
    /\ pc' = "done"
    /\ UNCHANGED <<lines, decl, scan_idx, cur, start_index, end_index, idx, brace_depth,
                   inside_enum, pending_doc, variants, consumed_log, items,
                   usage_vars>>

Next ==
    \/ Locate
    \/ StepOutside
    \/ StepDoc
    \/ StepAttr
    \/ StepVariant
    \/ StepOther
    \/ Yield
    \/ WriteInventory

Spec == Init /\ [][Next]_vars

-----------------------------------------------------------------------------
(* collect_block and collect_variants called on arbitrary lines *)

MaxLen == 4

AnyLine == { <<"pub", " ", "enum", " ", "OrderEvent", " ", "{">>,
             <<"}">>,
             <<" ", "A", ",">>,
             <<" ", "B", "(">>,
             <<" ", ")", ",">>,
             <<" ", "///", " ", "d1">>,
             <<" ", "#[", "a", "]">> }

AnyLines == UNION {[1..n -> AnyLine] : n \in 1..MaxLen}

InitAny ==
    /\ decl = [variants |-> <<>>, lastComma |-> TRUE]
    /\ lines \in AnyLines
    /\ start_index \in 0..(Len(lines) - 1)
    /\ pc = "call"
    /\ scan_idx = 0
    /\ cur = NoEnum
    /\ end_index = start_index
    /\ idx = start_index
    /\ brace_depth = 0
    /\ inside_enum = FALSE
    /\ pending_doc = <<>>
    /\ variants = <<>>
    /\ consumed_log = <<>>
    /\ items = <<>>
    /\ inventory = NoFile
    /\ UsageIdle

\* parse_file lines 65-66: collect_block, then collect_variants on its end index
CallBlock ==
    /\ pc = "call"
    /\ LET blk == collect_block(lines, start_index)
       IN /\ cur' = [NoEnum EXCEPT !.start_line = start_index + 1,
                                   !.definition = blk.definition]
          /\ end_index' = blk.end_index
    /\ SetLoop(VariantsStart(start_index))
    /\ pc' = "variants"
    /\ UNCHANGED <<lines, decl, scan_idx, start_index, items, inventory,
                   usage_vars>>

\* collect_variants with any 0 <= start_index <= end_index < len(lines)
CallVariants ==
    /\ pc = "call"
    /\ \E e \in start_index..(Len(lines) - 1) : end_index' = e
    /\ SetLoop(VariantsStart(start_index))
    /\ pc' = "variants"
    /\ UNCHANGED <<lines, decl, scan_idx, cur, start_index, items, inventory,
                   usage_vars>>

\* `return variants`
Return ==
    /\ pc = "variants"
    /\ idx > end_index
    /\ pc' = "returned"
    /\ UNCHANGED <<lines, decl, scan_idx, cur, start_index, end_index, idx, brace_depth,
                   inside_enum, pending_doc, variants, consumed_log, items, inventory,
                   usage_vars>>

NextAny ==
    \/ CallBlock
    \/ CallVariants
    \/ StepOutside
    \/ StepDoc
    \/ StepAttr
    \/ StepVariant
    \/ StepOther
    \/ Return

SpecAny == InitAny /\ [][NextAny]_vars

-----------------------------------------------------------------------------
(* Properties of the extractor *)

IsDocLine(line) == StartsWithDoc(strip(line))

IsAttrLine(line) == ~IsDocLine(line) /\ StartsWithAttr(strip(line))

\* the names of the variants the file text declares for OrderEvent, in order
DeclaredNames == [k \in 1..Len(decl.variants) |-> VariantNames[k]]

NamesOf(vs) == [k \in 1..Len(vs) |-> vs[k].name]

HasShape(shape) == \E k \in 1..Len(decl.variants) : decl.variants[k].shape = shape

\* C1: for every enum block with N variants the inventory holds exactly the N
\* declared variants, in declaration order, whatever the payloads nest.
C1_AllVariantsInOrder ==
    pc = "done" =>
        \A k \in 1..Len(inventory) :
            inventory[k].name = "OrderEvent" =>
                NamesOf(inventory[k].variants) = DeclaredNames

\* C7: collect_variant_definition never consumes a line past the end index of
\* the enclosing block, also for a last variant without a trailing comma: the
\* loop index after a variant is end_index + 1 at most.
C7_DefinitionStaysInBlock ==
    (pc = "variants" /\ ~HasShape("commented")) => idx <= end_index + 1

\* the doc and attribute lines among lines[from:to], as collect_variants stores them
RECURSIVE DocAttrBetween(_, _, _)
DocAttrBetween(ls, from, to) ==
    IF from >= to \/ from >= Len(ls) THEN <<>>
    ELSE LET line == ls[from + 1]
             rest == DocAttrBetween(ls, from + 1, to)
         IN IF IsDocLine(line) THEN <<strip(Tail(strip(line)))>> \o rest
            ELSE IF IsAttrLine(line) THEN <<strip(line)>> \o rest
            ELSE rest

\* the index of the first line of the run of doc and attribute lines that ends
\* right before the line at index s
RECURSIVE RunStart(_, _)
RunStart(ls, s) ==
    IF s > 0 /\ (IsDocLine(ls[s]) \/ IsAttrLine(ls[s])) THEN RunStart(ls, s - 1) ELSE s

\* index of the line after the definition of the variant before variant k, or
\* after the line that opened the enum's body
VariantFrom(k) ==
    IF k = 1 THEN start_index + 1
    ELSE variants[k - 1].start_line - 1 + consumed_log[k - 1]

IsDocEntry(entry) == ~StartsWithAttr(entry)

\* C6 as claimed: a variant preceded by K contiguous doc-comment lines has
\* exactly those K doc lines attached, in order.
C6_ExactlyTheContiguousDocs ==
    \A k \in 1..Len(variants) :
        LET s == variants[k].start_line - 1
        IN SelectSeq(variants[k].doc, IsDocEntry)
             = SelectSeq(DocAttrBetween(lines, RunStart(lines, s), s), IsDocEntry)

\* C6 as amended: a variant has attached, in order, exactly the doc-comment and
\* attribute lines met since the previous variant's definition ended (or since
\* the enum's body opened), blank lines between them notwithstanding; the
\* pending buffer holds only the lines met since then, so no doc line is
\* attached to two variants.
C6_DocsSincePreviousVariant ==
    (pc = "variants" /\ inside_enum) =>
        /\ \A k \in 1..Len(variants) :
              variants[k].doc
                = DocAttrBetween(lines, VariantFrom(k), variants[k].start_line - 1)
        /\ pending_doc = DocAttrBetween(lines, VariantFrom(Len(variants) + 1), idx)

\* C6 witness: a variant written right after two contiguous doc lines got both,
\* and the next variant, written without doc lines, got none.
C6_Witness ==
    /\ pc = "variants"
    /\ Len(variants) = 2
    /\ decl.variants[1].pre = "doc2"
    /\ variants[1].doc = << <<"d1">>, <<"d2">> >>
    /\ decl.variants[2].pre = "none"
    /\ variants[2].doc = <<>>

\* index of the first line at or after s that holds an opening brace, or -1
FirstOpen(ls, s) ==
    LET opens == {i \in s..(Len(ls) - 1) : Count(ls[i + 1], "{") > 0}
    IN IF opens = {} THEN -1 ELSE CHOOSE i \in opens : \A j \in opens : i <= j

\* index of the first line from FirstOpen on where the summed brace depth is
\* zero or below, or -1
CloseLine(ls, s) ==
    LET o == FirstOpen(ls, s)
        closes == {i \in o..(Len(ls) - 1) : SumBraceDelta(ls, o, i + 1) <= 0}
    IN IF o = -1 \/ closes = {} THEN -1
       ELSE CHOOSE i \in closes : \A j \in closes : i <= j

BlockCalled == pc # "call" /\ cur.start_line = start_index + 1

\* C8: collect_block counts braces from the first line with an opening brace,
\* ends at the first line where the depth counted from there is zero or below,
\* and returns the text of the lines from the declaration line through that
\* line (stripped at both ends, as str.strip does).
C8_BlockSpan ==
    (BlockCalled /\ CloseLine(lines, start_index) # -1) =>
        /\ end_index = CloseLine(lines, start_index)
        /\ cur.definition
             = strip(join(SubSeq(lines, start_index + 1, CloseLine(lines, start_index) + 1)))

\* C8 witness: a block whose opening brace comes after the declaration line,
\* with a closing brace met before counting started, closed two lines later.
C8_Witness ==
    /\ BlockCalled
    /\ FirstOpen(lines, start_index) > start_index
    /\ BraceDelta(lines[start_index + 1]) < 0
    /\ end_index >= FirstOpen(lines, start_index) + 2

\* C10: each iteration of collect_variants' loop advances idx by at least one
\* and idx never passes len(lines), so the loop ends; every variant's start
\* line lies in start_index+1 .. end_index+1 and the start lines increase.
C10_LoopAdvances ==
    /\ [][(pc = "variants" /\ pc' = "variants") => idx' >= idx + 1]_vars
    /\ [](pc # "call" =>
            /\ idx <= Len(lines)
            /\ \A k \in 1..Len(variants) :
                  /\ variants[k].start_line \in (start_index + 1)..(end_index + 1)
                  /\ k > 1 => variants[k].start_line > variants[k - 1].start_line
                  /\ consumed_log[k] >= 1)

\* C10 witness: the loop returned two variants, one of several lines.
C10_Witness ==
    /\ pc = "returned"
    /\ Len(variants) = 2
    /\ consumed_log[1] > 1

-----------------------------------------------------------------------------
(* Paths.  A path is the sequence of its parts, as pathlib's Path.parts. *)

REPO_ROOT == <<"/", "repo">>

BASE == REPO_ROOT \o <<"crates", "events", "src">>

\* the directory both scripts are run from
Cwd == REPO_ROOT

ValueError == "ValueError"

\* path.relative_to(root)
relative_to(path, root) ==
    IF Len(path) >= Len(root) /\ SubSeq(path, 1, Len(root)) = root
    THEN SubSeq(path, Len(root) + 1, Len(path))
    ELSE ValueError

LinkOrder == REPO_ROOT \o <<"link", "order.rs">>

\* path.resolve(): link/order.rs is a symbolic link to the file declaring OrderEvent
resolve(path) == IF path = LinkOrder THEN BASE \o <<"order.rs">> ELSE path

\* code-point order of the part names met under BASE
PartRank(part) ==
    CASE part = "mod.rs" -> 1
      [] part = "order.rs" -> 2
      [] part = "ship" -> 3
      [] part = "t.rs" -> 4
      [] part = "tests" -> 5
      [] OTHER -> 0

\* path order, as sorted() compares Path objects: part by part
RECURSIVE PathLess(_, _)
PathLess(a, b) ==
    IF a = <<>> THEN b # <<>>
    ELSE IF b = <<>> THEN FALSE
    ELSE IF Head(a) = Head(b) THEN PathLess(Tail(a), Tail(b))
    ELSE PartRank(Head(a)) < PartRank(Head(b))

\* sorted(paths)
RECURSIVE sorted(_)
sorted(paths) ==
    IF paths = <<>> THEN <<>>
    ELSE LET least == CHOOSE k \in 1..Len(paths) :
                         \A j \in 1..Len(paths) : ~PathLess(paths[j], paths[k])
         IN <<paths[least]>>
            \o sorted(SubSeq(paths, 1, least - 1) \o SubSeq(paths, least + 1, Len(paths)))

\* "/tests/" in path.as_posix()
InTestsDir(path) == \E k \in 2..(Len(path) - 1) : path[k] = "tests"

-----------------------------------------------------------------------------
(* The source tree under BASE and the inventory main makes of it *)

OrderDecl == [variants |-> << [shape |-> "tupleML", pre |-> "doc2"],
                              [shape |-> "unit", pre |-> "none"] >>,
              lastComma |-> TRUE]

\* the *.rs files under BASE
RsFiles == { BASE \o <<"order.rs">>,
             BASE \o <<"ship", "mod.rs">>,
             BASE \o <<"tests", "t.rs">> }

\* path.read_text().splitlines()
FileLines(path) ==
    CASE path = BASE \o <<"order.rs">> -> Render(OrderDecl)
      [] path = BASE \o <<"ship", "mod.rs">> ->
           << <<"pub", " ", "enum", " ", "ShipEvent", " ", "{">>, <<" ", "C", ",">>, <<"}">> >>
      [] path = BASE \o <<"tests", "t.rs">> ->
           << <<"pub", " ", "enum", " ", "TestEvent", " ", "{">>, <<" ", "D", ",">>, <<"}">> >>

Orders(S) == {f \in [1..Cardinality(S) -> S] : \A i, j \in DOMAIN f : i # j => f[i] # f[j]}

\* the loop of main (lines 39-43) over the paths in the given order
RECURSIVE ParseAll(_)
ParseAll(paths) ==
    IF paths = <<>> THEN <<>>
    ELSE (IF InTestsDir(Head(paths)) THEN <<>>
          ELSE parse_file(FileLines(Head(paths)),
                          relative_to(Head(paths), Cwd),
                          relative_to(Head(paths), BASE)))
         \o ParseAll(Tail(paths))

\* main of generate_events_inventory.py, rglob having listed the files in `listing`
inventory_main(listing) == InventoryItems(ParseAll(sorted(listing)))

-----------------------------------------------------------------------------
(* ripgrep and the usage main *)

\* the lines of the tree that may hold a qualified reference: path, line, text
Candidates ==
    { [path |-> REPO_ROOT \o <<"src", "main.rs">>, line |-> 10,
       text |-> <<" ", "OrderEvent", ":", ":", "A", "(", "x", ")">>],
      [path |-> REPO_ROOT \o <<"crates", "ops", "src", "lib.rs">>, line |-> 5,
       text |-> <<"OrderEvent", ":", ":", "A", " ">>],
      [path |-> BASE \o <<"order.rs">>, line |-> 40,
       text |-> <<" ", "OrderEvent", ":", ":", "B">>],
      [path |-> LinkOrder, line |-> 40,
       text |-> <<" ", "OrderEvent", ":", ":", "B">>],
      [path |-> REPO_ROOT \o <<"target", "debug", "gen.rs">>, line |-> 1,
       text |-> <<"OrderEvent", ":", ":", "A">>],
      [path |-> REPO_ROOT \o <<"refactor", "notes.md">>, line |-> 3,
       text |-> <<"OrderEvent", ":", ":", "B">>],
      [path |-> REPO_ROOT \o <<"crates", "ops", "target", "gen.rs">>, line |-> 7,
       text |-> <<"ShipEvent", ":", ":", "C">>] }

\* whether the search finds pattern f"{name}::{variant_name}" in the text
Matches(text, name, variant_name) ==
    \E k \in 1..(Len(text) - 3) :
        /\ text[k] = name
        /\ text[k + 1] = ":"
        /\ text[k + 2] = ":"
        /\ text[k + 3] = variant_name

\* str(path) of the paths the search reports
PathStr(path) ==
    CASE path = REPO_ROOT \o <<"src", "main.rs">> -> "/repo/src/main.rs"
      [] path = REPO_ROOT \o <<"crates", "ops", "src", "lib.rs">> -> "/repo/crates/ops/src/lib.rs"
      [] path = BASE \o <<"order.rs">> -> "/repo/crates/events/src/order.rs"
      [] path = LinkOrder -> "/repo/link/order.rs"
      [] path = REPO_ROOT \o <<"target", "debug", "gen.rs">> -> "/repo/target/debug/gen.rs"
      [] path = REPO_ROOT \o <<"refactor", "notes.md">> -> "/repo/refactor/notes.md"
      [] path = REPO_ROOT \o <<"crates", "ops", "target", "gen.rs">> -> "/repo/crates/ops/target/gen.rs"

\* Path(path_str)
Path(path_str) == CHOOSE path \in {c.path : c \in Candidates} : PathStr(path) = path_str

\* str(n) of the line numbers the search reports
IntStr(n) ==
    CASE n = 1 -> "1" [] n = 3 -> "3" [] n = 5 -> "5" [] n = 7 -> "7"
      [] n = 10 -> "10" [] n = 40 -> "40"

\* int(line_no)
int(line_no) == CHOOSE n \in {c.line : c \in Candidates} : IntStr(n) = line_no

\* a line of rg --no-heading --line-number: path:line:text
StdoutLine(c) == <<PathStr(c.path), ":", IntStr(c.line), ":">> \o c.text

\* line.split(":", 2)
Split2(line) ==
    LET colons == {k \in 1..Len(line) : line[k] = ":"}
        c1 == CHOOSE k \in colons : \A j \in colons : k <= j
        c2 == CHOOSE k \in colons \ {c1} : \A j \in colons \ {c1} : k <= j
    IN [path_str |-> SubSeq(line, 1, c1 - 1),
        line_no |-> SubSeq(line, c1 + 1, c2 - 1),
        text |-> SubSeq(line, c2 + 1, Len(line))]

Raised == "RuntimeError"

\* mutation of SearchFailed: the return code is not looked at
SearchFailedNever(rc) == FALSE

\* `proc.returncode not in {0, 1}`
SearchFailed(rc) == rc \notin {0, 1}

\* `rel.parts and rel.parts[0] in {"refactor", "target"}`
Excluded(rel) == rel # <<>> /\ rel[1] \in {"refactor", "target"}

RECURSIVE ParseStdout(_)
\* lines 50-60: the (path, line, text) triples kept of the search's output
ParseStdout(stdout) ==
    IF stdout = <<>> THEN <<>>
    ELSE LET f == Split2(Head(stdout))
             path == Path(f.path_str[1])
             rel == relative_to(path, REPO_ROOT)
             rest == ParseStdout(Tail(stdout))
         IN IF rel = ValueError THEN rest
            ELSE IF Excluded(rel) THEN rest
            ELSE <<[path |-> path, line |-> int(f.line_no[1]), text |-> f.text]>> \o rest

\* ripgrep(pattern), the search having ended with rc and printed stdout
ripgrep(rc, stdout) ==
    IF SearchFailed(rc) THEN Raised
    ELSE IF stdout = <<>> THEN <<>>
    ELSE ParseStdout(stdout)

\* mutation of IsDefinitionSite: the match's path is compared as reported
IsDefinitionSiteUnresolved(path, module_path) == path = module_path

\* `path.resolve() == module_path`
IsDefinitionSite(path, module_path) == resolve(path) = module_path

\* lines 76-80: the matches that are not at the definition site
Hits(results, module_path) ==
    SelectSeq(results, LAMBDA r : ~IsDefinitionSite(r.path, module_path))

\* Occurrence.to_dict
to_dict(hit) ==
    [path |-> relative_to(hit.path, REPO_ROOT), line |-> hit.line, line_text |-> strip(hit.text)]

\* mutation of AppendRecord: the `else` branch is missing
AppendRecordIfHits(report, item, variant_name, hits) ==
    IF hits = <<>> THEN report
    ELSE Append(report, [domain |-> item.module,
                         event_type |-> item.name,
                         variant |-> variant_name,
                         occurrences |-> [k \in 1..Len(hits) |-> to_dict(hits[k])]])

\* lines 82-99: the record of one variant is appended, with or without hits
AppendRecord(report, item, variant_name, hits) ==
    Append(report, [domain |-> item.module,
                    event_type |-> item.name,
                    variant |-> variant_name,
                    occurrences |-> [k \in 1..Len(hits) |-> to_dict(hits[k])]])

\* the position of the next variant at or after (i, j) in the nested loops
RECURSIVE Position(_, _, _)
Position(inv, i, j) ==
    IF i > Len(inv) THEN <<i, 1>>
    ELSE IF j > Len(inv[i].variants) THEN Position(inv, i + 1, 1)
    ELSE <<i, j>>

Runs == 2

RcError == {2}

InitUsage ==
    /\ tree \in SUBSET Candidates
    /\ run = 1
    /\ pc = "inventory"
    /\ inventory = NoFile
    /\ output = NoFile
    /\ wrote = FALSE
    /\ first_run = NoFile
    /\ item_i = 1
    /\ variant_j = 1
    /\ usage_report = <<>>
    /\ last_rc = 0
    /\ last_results = <<>>
    /\ decl = OrderDecl
    /\ lines = <<>>
    /\ scan_idx = 0
    /\ cur = NoEnum
    /\ start_index = 0
    /\ end_index = 0
    /\ idx = 0
    /\ brace_depth = 0
    /\ inside_enum = FALSE
    /\ pending_doc = <<>>
    /\ variants = <<>>
    /\ consumed_log = <<>>
    /\ items = <<>>

\* generate_events_inventory.py runs: rglob lists the files in some order
InventoryMain ==
    /\ pc = "inventory"
    /\ \E listing \in Orders(RsFiles) : inventory' = inventory_main(listing)
    /\ pc' = "load"
    /\ UNCHANGED <<tree, run, item_i, variant_j, usage_report, output, wrote, first_run,
                   last_rc, last_results>>
    /\ UNCHANGED <<lines, decl, scan_idx, cur, start_index, end_index, idx, brace_depth,
                   inside_enum, pending_doc, variants, consumed_log, items>>

\* generate_event_usage.py starts: load_inventory, usage_report = []
LoadInventory ==
    /\ pc = "load"
    /\ usage_report' = <<>>
    /\ item_i' = Position(inventory, 1, 1)[1]
    /\ variant_j' = Position(inventory, 1, 1)[2]
    /\ wrote' = FALSE
    /\ pc' = "usage"
    /\ UNCHANGED <<tree, run, output, first_run, last_rc, last_results>>
    /\ UNCHANGED <<lines, decl, scan_idx, cur, start_index, end_index, idx, brace_depth,
                   inside_enum, pending_doc, variants, consumed_log, items, inventory>>

\* one iteration of `for variant in item["variants"]`, the search having ended
\* with rc and printed stdout
SearchAndRecord(rc, stdout) ==
    LET item == inventory[item_i]
        variant_name == item.variants[variant_j].name
        module_path == resolve(REPO_ROOT \o item.path)
        results == ripgrep(rc, stdout)
        next == Position(inventory, item_i, variant_j + 1)
    IN /\ last_rc' = rc
       /\ last_results' = results
       /\ IF results = Raised
          THEN /\ pc' = "aborted"
               /\ UNCHANGED <<usage_report, item_i, variant_j>>
          ELSE /\ usage_report' = AppendRecord(usage_report, item, variant_name,
                                               Hits(results, module_path))
               /\ item_i' = next[1]
               /\ variant_j' = next[2]
               /\ pc' = "usage"
       /\ UNCHANGED <<tree, run, output, wrote, first_run>>
       /\ UNCHANGED <<lines, decl, scan_idx, cur, start_index, end_index, idx, brace_depth,
                   inside_enum, pending_doc, variants, consumed_log, items, inventory>>

\* the lines of the tree the search for the variant in hand matches
Found ==
    LET item == inventory[item_i]
    IN {c \in tree : Matches(c.text, item.name, item.variants[variant_j].name)}

\* the search succeeds (status 0) and prints the matching lines in some order
SearchMatches ==
    /\ pc = "usage"
    /\ item_i <= Len(inventory)
    /\ Found # {}
    /\ \E order \in Orders(Found) :
          SearchAndRecord(0, [k \in 1..Len(order) |-> StdoutLine(order[k])])

\* the search finds nothing (status 1) and prints nothing
SearchNoMatches ==
    /\ pc = "usage"
    /\ item_i <= Len(inventory)
    /\ Found = {}
    /\ SearchAndRecord(1, <<>>)

\* the search ends with another status
SearchFails ==
    /\ pc = "usage"
    /\ item_i <= Len(inventory)
    /\ \E rc \in RcError : SearchAndRecord(rc, <<>>)

\* line 101: the report is written
WriteReport ==
    /\ pc = "usage"
    /\ item_i > Len(inventory)
    /\ output' = usage_report
    /\ wrote' = TRUE
    /\ pc' = "written"
    /\ UNCHANGED <<tree, run, item_i, variant_j, usage_report, first_run, last_rc,
                   last_results>>
    /\ UNCHANGED <<lines, decl, scan_idx, cur, start_index, end_index, idx, brace_depth,
                   inside_enum, pending_doc, variants, consumed_log, items, inventory>>

\* the pipeline is run again on the unchanged tree
Rerun ==
    /\ pc = "written"
    /\ run < Runs
    /\ run' = run + 1
    /\ first_run' = IF run = 1 THEN [inventory |-> inventory, usage |-> output]
                    ELSE first_run
    /\ pc' = "inventory"
    /\ UNCHANGED <<tree, item_i, variant_j, usage_report, output, wrote, last_rc,
                   last_results>>
    /\ UNCHANGED <<lines, decl, scan_idx, cur, start_index, end_index, idx, brace_depth,
                   inside_enum, pending_doc, variants, consumed_log, items, inventory>>

NextUsage ==
    \/ InventoryMain
    \/ LoadInventory
    \/ SearchMatches
    \/ SearchNoMatches
    \/ SearchFails
    \/ WriteReport
    \/ Rerun

SpecUsage == InitUsage /\ [][NextUsage]_vars

-----------------------------------------------------------------------------
(* Properties of the usage run *)

\* the (event_type, variant) pairs of an inventory in traversal order
RECURSIVE Pairs(_)
Pairs(inv) ==
    IF inv = <<>> THEN <<>>
    ELSE [k \in 1..Len(Head(inv).variants) |-> <<Head(inv).name, Head(inv).variants[k].name>>]
         \o Pairs(Tail(inv))

KeysOf(report) == [k \in 1..Len(report) |-> <<report[k].event_type, report[k].variant>>]

\* C2: when the usage run completes, the report holds exactly one record per
\* (event_type, variant) pair of the inventory, in inventory traversal order,
\* a variant without surviving match included.
C2_OneRecordPerPair ==
    pc = "written" => KeysOf(output) = Pairs(inventory)

\* C2 witness: a written report with a record that has occurrences and a
\* record that has none.
C2_Witness ==
    /\ pc = "written"
    /\ \E k \in 1..Len(output) : output[k].occurrences # <<>>
    /\ \E k \in 1..Len(output) : output[k].occurrences = <<>>

InUsageRun == pc \in {"usage", "written", "aborted"}

\* the file that declares the enum of a usage record
DeclaringFile(rec) ==
    LET item == CHOOSE it \in {inventory[k] : k \in 1..Len(inventory)} :
                    it.name = rec.event_type
    IN resolve(REPO_ROOT \o item.path)

C4_FailureAborts ==
    /\ last_rc = 1 => (last_results = <<>> /\ pc # "aborted")
    /\ last_rc \notin {0, 1} => pc = "aborted"
    /\ pc = "aborted" =>
          /\ last_rc \notin {0, 1}
          /\ ~wrote
          /\ run = 1 => output = NoFile

\* C4 witness: two searches found nothing, the third failed; the two records
\* gathered so far were not written.
C4_Witness ==
    /\ pc = "aborted"
    /\ run = 1
    /\ Len(usage_report) = 2
    /\ usage_report[1].occurrences = <<>>
    /\ output = NoFile

\* C5: a second run of the pipeline on the unchanged tree leaves artifacts
\* identical to the first run's, whatever order the search returns matches in.
C5_SameArtifacts ==
    (run > 1 /\ pc = "written") =>
        /\ inventory = first_run.inventory
        /\ output = first_run.usage

\* C9: no match in the tool's own directory or in a build-output directory,
\* at whatever depth, becomes an Occurrence.
C9_NoExcludedDirectory ==
    InUsageRun =>
        \A k \in 1..Len(usage_report) :
            \A o \in 1..Len(usage_report[k].occurrences) :
                LET rel == usage_report[k].occurrences[o].path
                IN /\ rel[1] # "refactor"
                   /\ \A d \in 1..(Len(rel) - 1) : rel[d] # "target"

====
